---- MODULE Spec2Model ----
(***************************************************************************)
(* Model of the Fashion Emotion BI Dashboard (src/app.py) and its data     *)
(* loader (src/data_loader.py, src/utils/data_loader.py).                  *)
(*                                                                         *)
(* Numbers.  Python floats are modelled as exact rationals <<n, d>> in     *)
(* lowest terms with d > 0, so that equalities such as "contributes        *)
(* exactly 0.4" are decided exactly.  Prices are whole currency units and  *)
(* hotness scores are whole hundredths (hotness_score = 75 is 0.75).       *)
(*                                                                         *)
(* Specifications.                                                         *)
(*   SpecSim  : one call of calculate_similarity, statement by statement.  *)
(*   SpecRec  : one call of get_recommendations on a catalog.              *)
(*   SpecTier : the tier columns of the Business Performance page.         *)
(*   SpecCards: the recommendation cards of the Recommendation Engine page.*)
(*   SpecDownload, SpecFilter, SpecValidate : one call of                  *)
(*              download_from_drive, filter_products, validate_data.       *)
(*   SpecFetch: the body of load_data_from_drive and the helpers of        *)
(*              utils/data_loader.py, working on the same local files.     *)
(*   Spec     : the script, its cached loader, its pages and the local      *)
(*              files.                                                     *)
(***************************************************************************)
EXTENDS Integers, Sequences, FiniteSets, TLC

VARIABLES
    \* ---- calculate_similarity (SpecSim)
    simPc,              \* statement of calculate_similarity about to run
    product1,           \* argument product1 (the selected product)
    product2,           \* argument product2 (a catalog row)
    score,              \* local score
    simResult,          \* the value returned, Unbound before the return
    \* ---- get_recommendations (SpecRec)
    recPc,              \* "ready", "returned" or "raised"
    df_articles,        \* the catalog: a sequence of rows, in row order
    selected_product,   \* argument selected_product
    n_recommendations,  \* argument n_recommendations
    candidates,         \* local candidates, with its match_score column
    recommendations,    \* the frame returned
    \* ---- Business Performance page (SpecTier)
    tierPc,             \* block of the page about to run
    hotness_score,      \* column hotness_score of the page's copy of the catalog
    high_performers,    \* metric "High Performers"
    low_performers,     \* metric "Low Performers"
    performance_tier,   \* column performance_tier, <<>> before it is set
    inventory_rec,      \* column "Product Count" of inventory_rec, by tier
    \* ---- the script, the cached loader and the local files (Spec)
    disk,               \* the paths that exist under data/
    cache,              \* st.cache_resource's entry for load_data_from_drive
    scriptPc,           \* position of the script run
    data,               \* the script's global data
    cacheHit,           \* whether this run's call was served from the cache
    page,               \* the page chosen in the sidebar
    work,               \* the frame the page (or filter_products) works on
    loaderPc,           \* position inside load_data_from_drive's body
    loaderData,         \* local data of the body
    current,            \* local current
    csvIdx,             \* position of the loop over csv_files
    progress,           \* the last value given to progress_bar.progress
    calls,              \* the calls the body has made to download_from_drive,
                        \* load_csv_safe and extractall, in order
    \* ---- the recommendation cards of the Recommendation Engine page
    \* (SpecCards)
    cardPc,             \* position in lines 889-919
    card_recs,          \* recommendations: the article_id of each row
    card_idx,           \* idx of the card loop
    cards,              \* the cards drawn, each with its button's key
    widget_keys,        \* the widget keys registered in this run
    \* ---- one call of download_from_drive (SpecDownload)
    dlPc,               \* "ready" or "returned"
    dl_path,            \* argument file_path
    dl_files,           \* the paths that exist
    dl_gdown,           \* what gdown.download did, "not called" if not called
    dl_result,          \* how the call ended, Unbound before it has
    \* ---- one call of filter_products (SpecFilter)
    filterPc,           \* "ready" or "returned"
    f_df,               \* argument df: a sequence of rows, in row order
    f_mood,             \* argument mood
    f_price_range,      \* argument price_range
    f_color,            \* argument color
    f_hotness_min,      \* argument hotness_min
    f_result,           \* the frame returned, Unbound before the return
    \* ---- one call of validate_data (SpecValidate)
    validPc,            \* "ready" or "returned"
    v_data,             \* argument data
    v_result,           \* how the call ended, Unbound before it has
    \* ---- the helpers of src/utils/data_loader.py (SpecFetch)
    u_call,             \* the last call of a helper, with its arguments
    u_did               \* what that call did

simVars == <<simPc, product1, product2, score, simResult>>
recVars == <<recPc, df_articles, selected_product, n_recommendations,
             candidates, recommendations>>

tierVars == <<tierPc, hotness_score, high_performers, low_performers,
              performance_tier, inventory_rec>>

scriptVars == <<scriptPc, data, cacheHit, page, work>>
loaderVars == <<loaderPc, loaderData, current, csvIdx, progress, calls>>
appVars == <<disk, cache, scriptVars, loaderVars>>

cardVars == <<cardPc, card_recs, card_idx, cards, widget_keys>>

coreVars == <<simVars, recVars, tierVars, appVars>>
dlVars == <<dlPc, dl_path, dl_files, dl_gdown, dl_result>>
filterVars == <<filterPc, f_df, f_mood, f_price_range, f_color, f_hotness_min,
                f_result>>
validVars == <<validPc, v_data, v_result>>
utilVars == <<u_call, u_did>>
extraVars == <<cardVars, dlVars, filterVars, validVars, utilVars>>

vars == <<coreVars, extraVars>>

\* the variables each specification leaves alone
notSim == <<recVars, tierVars, appVars, extraVars>>
notRec == <<simVars, tierVars, appVars, extraVars>>
notTier == <<simVars, recVars, appVars, extraVars>>
notApp == <<simVars, recVars, tierVars, extraVars>>
notCard == <<coreVars, dlVars, filterVars, validVars, utilVars>>
notDl == <<coreVars, cardVars, filterVars, validVars, utilVars>>
notFilter == <<coreVars, cardVars, dlVars, validVars, utilVars>>
notValid == <<coreVars, cardVars, dlVars, filterVars, utilVars>>
notFetch == <<simVars, recVars, tierVars, cardVars, dlVars, filterVars,
              validVars>>

\* Python values are tagged with their type where a variable or a dictionary
\* holds values of several types; a name not bound yet holds <<>> and a
\* bound one <<value>>
NoValue == "NoValue"
Unbound == <<>>
None == [kind |-> "None"]
Str(v) == [kind |-> "str", value |-> v]

\* ------------------------------------------------------------------------
\* Bounds of the model
\* ------------------------------------------------------------------------
MaxPrice == 3
MaxHot == 150
MaxRows == 3
MaxN == 2
MaxTierRows == 2
MaxFrameRows == 1
MaxRecs == 6
MaxFilterRows == 2

\* ------------------------------------------------------------------------
\* Exact arithmetic standing for Python's float arithmetic
\* ------------------------------------------------------------------------
Abs(x) == IF x < 0 THEN -x ELSE x
Min(a, b) == IF a < b THEN a ELSE b

RECURSIVE Gcd(_, _)
Gcd(a, b) == IF b = 0 THEN a ELSE Gcd(b, a % b)

\* n / d in lowest terms with a positive denominator (d # 0)
Frac(n, d) ==
    LET g == Gcd(Abs(n), Abs(d))
        s == IF d < 0 THEN -1 ELSE 1
    IN  <<(s * n) \div g, (s * d) \div g>>

Zero == Frac(0, 1)
One == Frac(1, 1)

FAdd(a, b) == Frac(a[1] * b[2] + b[1] * a[2], a[2] * b[2])
FSub(a, b) == Frac(a[1] * b[2] - b[1] * a[2], a[2] * b[2])
FMul(a, b) == Frac(a[1] * b[1], a[2] * b[2])
FDiv(a, b) == Frac(a[1] * b[2], a[2] * b[1])
FLeq(a, b) == a[1] * b[2] <= b[1] * a[2]
FLt(a, b) == a[1] * b[2] < b[1] * a[2]
FAbs(a) == <<Abs(a[1]), a[2]>>
FMin(a, b) == IF FLt(b, a) THEN b ELSE a
FMax(a, b) == IF FLt(a, b) THEN b ELSE a

\* ------------------------------------------------------------------------
\* Catalog rows
\* ------------------------------------------------------------------------
Moods == {"Confidence", "Relaxed"}
Sections == {"Womens Everyday", "Mens Underwear"}

\* the value of a row's price and hotness_score columns
Price(p) == Frac(p.price, 1)
Hotness(p) == Frac(p.hotness_score, 100)

\* ------------------------------------------------------------------------
\* calculate_similarity, one operator per block of the function
\* ------------------------------------------------------------------------
\* mutant: the mood weight of the 30% variants
MoodTermWeight30(s, p1, p2) ==
    IF p1.mood = p2.mood THEN FAdd(s, Frac(3, 10)) ELSE s

\* "Same emotion (40% weight)"
MoodTerm(s, p1, p2) ==
    IF p1.mood = p2.mood THEN FAdd(s, Frac(4, 10)) ELSE s

\* mutant: the price ratio is not capped at 1
PriceTermNoCap(s, p1, p2) ==
    LET price_diff == FAbs(FSub(Price(p1), Price(p2)))
        max_price == FMax(Price(p1), Price(p2))
    IN  IF FLt(Zero, max_price)
        THEN FAdd(s, FMul(FSub(One, FDiv(price_diff, max_price)),
                          Frac(3, 10)))
        ELSE s

\* "Similar price range (30% weight)"
PriceTerm(s, p1, p2) ==
    LET price_diff == FAbs(FSub(Price(p1), Price(p2)))
        max_price == FMax(Price(p1), Price(p2))
    IN  IF FLt(Zero, max_price)
        THEN LET price_similarity ==
                     FSub(One, FMin(FDiv(price_diff, max_price), One))
             IN  FAdd(s, FMul(price_similarity, Frac(3, 10)))
        ELSE s

\* "Similar hotness (20% weight)"
HotnessTerm(s, p1, p2) ==
    LET hotness_diff == FAbs(FSub(Hotness(p1), Hotness(p2)))
        hotness_similarity == FSub(One, hotness_diff)
    IN  FAdd(s, FMul(hotness_similarity, Frac(2, 10)))

\* "Same category (10% weight)"
SectionTerm(s, p1, p2) ==
    IF p1.section_name = p2.section_name THEN FAdd(s, Frac(1, 10)) ELSE s

\* return min(score, 1.0)
SimReturnValue(s) == FMin(s, One)

calculate_similarity(p1, p2) ==
    SimReturnValue(
        SectionTerm(HotnessTerm(PriceTerm(MoodTerm(Zero, p1, p2), p1, p2),
                                p1, p2), p1, p2))

\* ------------------------------------------------------------------------
\* SpecSim: a call of calculate_similarity on every pair of rows
\* ------------------------------------------------------------------------
SimPrices == -1 .. MaxPrice
SimHotness == {0, 30, 100, MaxHot}
SimProducts ==
    [mood : Moods, price : SimPrices, hotness_score : SimHotness,
     section_name : Sections]

SimIdle ==
    /\ simPc = "off"
    /\ product1 = NoValue
    /\ product2 = NoValue
    /\ score = Zero
    /\ simResult = Unbound

RecIdle ==
    /\ recPc = "off"
    /\ df_articles = <<>>
    /\ selected_product = NoValue
    /\ n_recommendations = 0
    /\ candidates = <<>>
    /\ recommendations = <<>>

TierIdle ==
    /\ tierPc = "off"
    /\ hotness_score = <<>>
    /\ high_performers = 0
    /\ low_performers = 0
    /\ performance_tier = <<>>
    /\ inventory_rec = <<>>

EmptyDict == [k \in {} |-> None]

AppIdle ==
    /\ disk = {}
    /\ cache = Unbound
    /\ scriptPc = "off"
    /\ data = Unbound
    /\ cacheHit = FALSE
    /\ page = NoValue
    /\ work = Unbound
    /\ loaderPc = "off"
    /\ loaderData = EmptyDict
    /\ current = 0
    /\ csvIdx = 1
    /\ progress = Zero
    /\ calls = <<>>

CardIdle ==
    /\ cardPc = "off"
    /\ card_recs = <<>>
    /\ card_idx = 0
    /\ cards = <<>>
    /\ widget_keys = {}

DlIdle ==
    /\ dlPc = "off"
    /\ dl_path = NoValue
    /\ dl_files = {}
    /\ dl_gdown = "not called"
    /\ dl_result = Unbound

FilterIdle ==
    /\ filterPc = "off"
    /\ f_df = <<>>
    /\ f_mood = None
    /\ f_price_range = None
    /\ f_color = None
    /\ f_hotness_min = None
    /\ f_result = Unbound

ValidIdle ==
    /\ validPc = "off"
    /\ v_data = EmptyDict
    /\ v_result = Unbound

\* no helper has been called
NoCall == [fn |-> "none"]

UtilIdle ==
    /\ u_call = NoCall
    /\ u_did = "nothing"

CoreIdle == SimIdle /\ RecIdle /\ TierIdle /\ AppIdle
ExtraIdle == CardIdle /\ DlIdle /\ FilterIdle /\ ValidIdle /\ UtilIdle

SimInit ==
    /\ ExtraIdle
    /\ RecIdle
    /\ TierIdle
    /\ AppIdle
    /\ product1 \in SimProducts
    /\ product2 \in SimProducts
    /\ simPc = "mood"
    /\ score = Zero
    /\ simResult = Unbound

SimMood ==
    /\ simPc = "mood"
    /\ score' = MoodTerm(score, product1, product2)
    /\ simPc' = "price"
    /\ UNCHANGED <<product1, product2, simResult>>
    /\ UNCHANGED notSim

SimPrice ==
    /\ simPc = "price"
    /\ score' = PriceTerm(score, product1, product2)
    /\ simPc' = "hotness"
    /\ UNCHANGED <<product1, product2, simResult>>
    /\ UNCHANGED notSim

SimHotnessStep ==
    /\ simPc = "hotness"
    /\ score' = HotnessTerm(score, product1, product2)
    /\ simPc' = "section"
    /\ UNCHANGED <<product1, product2, simResult>>
    /\ UNCHANGED notSim

SimSection ==
    /\ simPc = "section"
    /\ score' = SectionTerm(score, product1, product2)
    /\ simPc' = "return"
    /\ UNCHANGED <<product1, product2, simResult>>
    /\ UNCHANGED notSim

SimReturn ==
    /\ simPc = "return"
    /\ simResult' = SimReturnValue(score)
    /\ simPc' = "done"
    /\ UNCHANGED <<product1, product2, score>>
    /\ UNCHANGED notSim

SimNext == SimMood \/ SimPrice \/ SimHotnessStep \/ SimSection \/ SimReturn

SpecSim == SimInit /\ [][SimNext]_vars

\* ------------------------------------------------------------------------
\* get_recommendations
\* ------------------------------------------------------------------------
\* df_articles[df_articles['article_id'] != selected_product['article_id']]
\* .copy(): the rows kept, each with its index label (its row position)
RECURSIVE FilterCandidates(_, _, _)
FilterCandidates(sel, df, i) ==
    IF i > Len(df) THEN <<>>
    ELSE (IF df[i].article_id # sel.article_id
          THEN <<[index |-> i, row |-> df[i]]>> ELSE <<>>)
         \o FilterCandidates(sel, df, i + 1)

\* candidates['match_score'] = candidates.apply(calculate_similarity(...))
WithMatchScore(sel, cands) ==
    [k \in 1 .. Len(cands) |->
        [index |-> cands[k].index, row |-> cands[k].row,
         match_score |-> calculate_similarity(sel, cands[k].row)]]

\* mutant: nlargest(keep='last')
LastLargest(cands) ==
    CHOOSE k \in 1 .. Len(cands) :
        /\ \A j \in 1 .. Len(cands) :
              FLeq(cands[j].match_score, cands[k].match_score)
        /\ \A j \in (k + 1) .. Len(cands) :
              cands[j].match_score # cands[k].match_score

\* the position nlargest(keep='first') takes next: the first row holding
\* the largest match_score
FirstLargest(cands) ==
    CHOOSE k \in 1 .. Len(cands) :
        /\ \A j \in 1 .. Len(cands) :
              FLeq(cands[j].match_score, cands[k].match_score)
        /\ \A j \in 1 .. (k - 1) :
              cands[j].match_score # cands[k].match_score

RemoveAt(q, k) == SubSeq(q, 1, k - 1) \o SubSeq(q, k + 1, Len(q))

\* candidates.nlargest(n, 'match_score')
RECURSIVE NLargest(_, _)
NLargest(n, cands) ==
    IF n <= 0 \/ cands = <<>> THEN <<>>
    ELSE LET k == FirstLargest(cands)
         IN  <<cands[k]>> \o NLargest(n - 1, RemoveAt(cands, k))

\* mutant: the selected product is not filtered out
CandidatesUnfiltered(sel, df) ==
    WithMatchScore(sel, [i \in 1 .. Len(df) |-> [index |-> i, row |-> df[i]]])

\* the local candidates once match_score is set
Candidates(sel, df) == WithMatchScore(sel, FilterCandidates(sel, df, 1))

\* the minimum score of the variants that apply one
MinThreshold == Frac(6, 10)

\* mutant: head(n) instead of nlargest(n)
get_recommendations_head(sel, df, n) ==
    SubSeq(Candidates(sel, df), 1, Min(n, Len(Candidates(sel, df))))

\* mutant: the candidates below the minimum score are dropped first
get_recommendations_threshold(sel, df, n) ==
    NLargest(n, SelectSeq(Candidates(sel, df),
                          LAMBDA c : FLeq(MinThreshold, c.match_score)))

get_recommendations(sel, df, n) == NLargest(n, Candidates(sel, df))

\* ------------------------------------------------------------------------
\* SpecRec: a call of get_recommendations on every catalog of the pool
\* ------------------------------------------------------------------------
ArticleIds == {108775, 110065}
RecHotness == {0, 50, 100}
RecRows ==
    [article_id : ArticleIds, mood : Moods, price : {1},
     hotness_score : RecHotness, section_name : {"Womens Everyday"}]

Catalogs == UNION {[1 .. len -> RecRows] : len \in 1 .. MaxRows}

RecInit ==
    /\ ExtraIdle
    /\ SimIdle
    /\ TierIdle
    /\ AppIdle
    /\ recPc = "ready"
    /\ df_articles \in Catalogs
    /\ selected_product = NoValue
    /\ n_recommendations = 0
    /\ candidates = <<>>
    /\ recommendations = <<>>

\* the call returns the top rows
GetRecommendationsReturns ==
    /\ recPc = "ready"
    /\ \E i \in DOMAIN df_articles, n \in 0 .. MaxN :
          LET sel == df_articles[i]
          IN  /\ selected_product' = sel
              /\ n_recommendations' = n
              /\ candidates' = Candidates(sel, df_articles)
              /\ recommendations' = get_recommendations(sel, df_articles, n)
    /\ recPc' = "returned"
    /\ UNCHANGED df_articles
    /\ UNCHANGED notRec

\* no row is left after the filter: DataFrame.apply on the empty frame gives
\* back a frame, and assigning a frame of several columns to the single
\* column match_score raises ValueError in the pandas releases that refuse
\* it; the releases that accept it go on (GetRecommendationsReturns)
GetRecommendationsRaises ==
    /\ recPc = "ready"
    /\ \E i \in DOMAIN df_articles, n \in 0 .. MaxN :
          LET sel == df_articles[i]
          IN  /\ Candidates(sel, df_articles) = <<>>
              /\ selected_product' = sel
              /\ n_recommendations' = n
    /\ recPc' = "raised"
    /\ UNCHANGED <<df_articles, candidates, recommendations>>
    /\ UNCHANGED notRec

RecNext == GetRecommendationsReturns \/ GetRecommendationsRaises

SpecRec == RecInit /\ [][RecNext]_vars

\* ------------------------------------------------------------------------
\* Business Performance page: the metrics and the tier columns
\* ------------------------------------------------------------------------
NaN == "NaN"

\* bins=[0, 0.3, 0.5, 0.7, 1.0] in hundredths, and the labels
TierBins == <<0, 30, 50, 70, 100>>
TierLabels == <<"Low", "Medium", "High", "Very High">>

\* pd.cut(x, bins, labels) with its defaults right=True and
\* include_lowest=False: the label of the interval (bins[k], bins[k+1]]
\* that holds x, NaN when none does
Cut(x, bins, labels) ==
    IF \E k \in 1 .. Len(labels) : bins[k] < x /\ x <= bins[k + 1]
    THEN labels[CHOOSE k \in 1 .. Len(labels) :
                    bins[k] < x /\ x <= bins[k + 1]]
    ELSE NaN

\* pd.cut(df_articles['hotness_score'], bins, labels)
PerformanceTierColumn(col) ==
    [i \in 1 .. Len(col) |-> Cut(col[i], TierBins, TierLabels)]

\* len(df_articles[df_articles['hotness_score'] > 0.7])
HighPerformers(col) == Cardinality({i \in 1 .. Len(col) : col[i] > 70})

\* len(df_articles[df_articles['hotness_score'] < 0.3])
LowPerformers(col) == Cardinality({i \in 1 .. Len(col) : col[i] < 30})

\* groupby('performance_tier').agg({'article_id': 'count', ...}): one line
\* per category, the rows without a tier (NaN) in none
ProductCount(tiers) ==
    [k \in 1 .. Len(TierLabels) |->
        Cardinality({i \in 1 .. Len(tiers) : tiers[i] = TierLabels[k]})]

\* ------------------------------------------------------------------------
\* SpecTier: the Business Performance page on every hotness column
\* ------------------------------------------------------------------------
TierHotness == {h \in 0 .. MaxHot : h % 5 = 0}
HotnessColumns == UNION {[1 .. len -> TierHotness] : len \in 1 .. MaxTierRows}

TierInit ==
    /\ ExtraIdle
    /\ SimIdle
    /\ RecIdle
    /\ AppIdle
    /\ tierPc = "metrics"
    /\ hotness_score \in HotnessColumns
    /\ high_performers = 0
    /\ low_performers = 0
    /\ performance_tier = <<>>
    /\ inventory_rec = <<>>

PageMetrics ==
    /\ tierPc = "metrics"
    /\ high_performers' = HighPerformers(hotness_score)
    /\ low_performers' = LowPerformers(hotness_score)
    /\ tierPc' = "tier"
    /\ UNCHANGED <<hotness_score, performance_tier, inventory_rec>>
    /\ UNCHANGED notTier

PagePerformanceTier ==
    /\ tierPc = "tier"
    /\ performance_tier' = PerformanceTierColumn(hotness_score)
    /\ tierPc' = "inventory"
    /\ UNCHANGED <<hotness_score, high_performers, low_performers,
                   inventory_rec>>
    /\ UNCHANGED notTier

PageInventoryRec ==
    /\ tierPc = "inventory"
    /\ inventory_rec' = ProductCount(performance_tier)
    /\ tierPc' = "done"
    /\ UNCHANGED <<hotness_score, high_performers, low_performers,
                   performance_tier>>
    /\ UNCHANGED notTier

TierNext == PageMetrics \/ PagePerformanceTier \/ PageInventoryRec

SpecTier == TierInit /\ [][TierNext]_vars

\* ------------------------------------------------------------------------
\* SpecCards: lines 889-919, the cards under "Recommended Products (Top 10
\* Matches)"
\* ------------------------------------------------------------------------
\* n_recommendations=10 at the call of line 889
TopN == 10

\* cols = st.columns(5)
CardColumns == 5

\* key=f"details_{product['article_id']}"
DetailsKey(article_id) == <<"details", article_id>>

\* the frames get_recommendations may return to the page, by the article_id
\* of each row: at most TopN rows, the article_id of a row being its
\* position or, where the catalog repeats an article_id, that of the row
\* before it
CardFrames ==
    UNION {{r \in [1 .. len -> 1 .. len] :
              \A k \in 1 .. len : \/ r[k] = k
                                  \/ k > 1 /\ r[k] = r[k - 1]} :
           len \in 0 .. Min(MaxRecs, TopN)}

CardsInit ==
    /\ CoreIdle
    /\ DlIdle
    /\ FilterIdle
    /\ ValidIdle
    /\ UtilIdle
    /\ cardPc = "call"
    /\ card_recs = <<>>
    /\ card_idx = 0
    /\ cards = <<>>
    /\ widget_keys = {}

\* line 889: recommendations = get_recommendations(...); line 891 chooses
\* between the cards and st.info
CardsRecommend ==
    /\ cardPc = "call"
    /\ card_recs' \in CardFrames
    /\ cardPc' = IF Len(card_recs') > 0 THEN "loop" ELSE "info"
    /\ UNCHANGED <<card_idx, cards, widget_keys>>
    /\ UNCHANGED notCard

\* line 971: st.info("No recommendations found...")
CardsInfo ==
    /\ cardPc = "info"
    /\ cardPc' = "done"
    /\ UNCHANGED <<card_recs, card_idx, cards, widget_keys>>
    /\ UNCHANGED notCard

\* lines 894-916: a turn of the loop with idx < len(cols) draws the card of
\* row idx in column idx, with its View Details button
CardsDraw ==
    /\ cardPc = "loop"
    /\ card_idx < Len(card_recs)
    /\ card_idx < CardColumns
    /\ LET article_id == card_recs[card_idx + 1]
       IN  /\ DetailsKey(article_id) \notin widget_keys
           /\ cards' = Append(cards, [article_id |-> article_id,
                                      column |-> card_idx,
                                      button |-> DetailsKey(article_id)])
           /\ widget_keys' = widget_keys \cup {DetailsKey(article_id)}
    /\ card_idx' = card_idx + 1
    /\ UNCHANGED <<cardPc, card_recs>>
    /\ UNCHANGED notCard

\* line 913: st.button with a key already registered in this run raises;
\* the except clause of line 985 shows the error and the page ends
CardsDuplicateKey ==
    /\ cardPc = "loop"
    /\ card_idx < Len(card_recs)
    /\ card_idx < CardColumns
    /\ DetailsKey(card_recs[card_idx + 1]) \in widget_keys
    /\ cardPc' = "error"
    /\ UNCHANGED <<card_recs, card_idx, cards, widget_keys>>
    /\ UNCHANGED notCard

\* lines 917-918: else: break, at the first idx that has no column
CardsBreak ==
    /\ cardPc = "loop"
    /\ card_idx < Len(card_recs)
    /\ card_idx >= CardColumns
    /\ cardPc' = "done"
    /\ UNCHANGED <<card_recs, card_idx, cards, widget_keys>>
    /\ UNCHANGED notCard

\* the loop has visited every row
CardsExhausted ==
    /\ cardPc = "loop"
    /\ card_idx = Len(card_recs)
    /\ cardPc' = "done"
    /\ UNCHANGED <<card_recs, card_idx, cards, widget_keys>>
    /\ UNCHANGED notCard

CardsNext ==
    \/ CardsRecommend
    \/ CardsInfo
    \/ CardsDraw
    \/ CardsDuplicateKey
    \/ CardsBreak
    \/ CardsExhausted

SpecCards == CardsInit /\ [][CardsNext]_vars

\* ------------------------------------------------------------------------
\* The data loader
\* ------------------------------------------------------------------------
\* csv_files, in the order the loop visits it, and the file of each key
CsvKeys == <<"article_master_web", "customer_dna_master",
             "customer_test_validation", "visual_dna_embeddings">>
CsvPath(key) == "data/" \o key \o ".csv"

images_zip_path == "data/hm_web_images.zip"
images_dir == "data/hm_web_images"

Paths == {CsvPath(CsvKeys[k]) : k \in DOMAIN CsvKeys}
            \cup {images_zip_path, images_dir}

\* mutant: the image archive is not counted
total_files_csv_only == Len(CsvKeys)

\* total_files = len(csv_files) + 1
total_files == Len(CsvKeys) + 1

\* what gdown.download may do: save the file, return leaving no file, raise
GdownOutcomes == {"saved", "nothing", "raises"}

\* download_from_drive(file_id, file_path, file_name) on the files d, gdown
\* behaving as outcome: the value returned and the files afterwards
\* mutant: the call of gdown.download outside the try block
download_from_drive_no_try(path, d, outcome) ==
    IF path \in d THEN [ok |-> TRUE, raised |-> FALSE, disk |-> d]
    ELSE IF outcome = "saved"
    THEN [ok |-> TRUE, raised |-> FALSE, disk |-> d \cup {path}]
    ELSE [ok |-> FALSE, raised |-> outcome = "raises", disk |-> d]

download_from_drive(path, d, outcome) ==
    IF path \in d THEN [ok |-> TRUE, raised |-> FALSE, disk |-> d]
    ELSE IF outcome = "saved"
    THEN [ok |-> TRUE, raised |-> FALSE, disk |-> d \cup {path}]
    ELSE [ok |-> FALSE, raised |-> FALSE, disk |-> d]

\* src/data_loader.py, download_from_drive: the same body with log lines;
\* after the download the file is looked for, and its size read when found
loader_download_from_drive(path, d, outcome) ==
    IF path \in d THEN [ok |-> TRUE, raised |-> FALSE, disk |-> d]
    ELSE LET after == IF outcome = "saved" THEN d \cup {path} ELSE d
         IN  IF outcome = "raises"
             THEN [ok |-> FALSE, raised |-> FALSE, disk |-> d]
             ELSE IF path \in after
             THEN [ok |-> TRUE, raised |-> FALSE, disk |-> after]
             ELSE [ok |-> FALSE, raised |-> FALSE, disk |-> after]

\* what gdown.download did in a call on the files d
GdownDid(path, d, outcome) == IF path \in d THEN "not called" ELSE outcome

\* ------------------------------------------------------------------------
\* SpecDownload: one call of download_from_drive, of app.py or of
\* data_loader.py
\* ------------------------------------------------------------------------
DownloadInit ==
    /\ CoreIdle
    /\ CardIdle
    /\ FilterIdle
    /\ ValidIdle
    /\ UtilIdle
    /\ dlPc = "ready"
    /\ dl_path \in Paths
    /\ dl_files \in SUBSET Paths
    /\ dl_gdown = "not called"
    /\ dl_result = Unbound

\* how a call that gives r ends
DownloadEnds(r, did) ==
    /\ dl_result' = <<[ok |-> r.ok, raised |-> r.raised]>>
    /\ dl_files' = r.disk
    /\ dl_gdown' = did
    /\ dlPc' = "returned"
    /\ UNCHANGED dl_path
    /\ UNCHANGED notDl

AppDownloadFromDrive ==
    /\ dlPc = "ready"
    /\ \E outcome \in GdownOutcomes :
          DownloadEnds(download_from_drive(dl_path, dl_files, outcome),
                       GdownDid(dl_path, dl_files, outcome))

LoaderDownloadFromDrive ==
    /\ dlPc = "ready"
    /\ \E outcome \in GdownOutcomes :
          DownloadEnds(loader_download_from_drive(dl_path, dl_files, outcome),
                       GdownDid(dl_path, dl_files, outcome))

DownloadNext ==
    \/ AppDownloadFromDrive
    \/ LoaderDownloadFromDrive

SpecDownload == DownloadInit /\ [][DownloadNext]_vars

\* what load_csv_safe may return: None when pd.read_csv raises, else the
\* frame read: its number of rows, and the columns it has beside those of
\* the file (none when it is read)
Frames == [kind : {"DataFrame"}, rows : 0 .. MaxFrameRows, derived : {{}}]
ReadCsvOutcomes == {None} \cup Frames

\* data[key] = value
DictSet(d, key, value) == (key :> value) @@ d

\* what zip_ref.extractall(images_dir) may do: unpack the directory, return
\* having created nothing (an archive without members), raise before
\* anything is written, raise with the directory partly written
ExtractOutcomes == {"extracted", "empty", "raises", "raises_partial"}

\* mutant: the test of lines 265-267 left out
ProductDataNotTested(d) == FALSE

\* 'article_master_web' not in data or data['article_master_web'] is None
NoProductData(d) ==
    IF "article_master_web" \notin DOMAIN d THEN TRUE
    ELSE d["article_master_web"] = None

\* mutant: a result without the product table is not served from the cache
CacheHitIfComplete ==
    IF cache = Unbound THEN FALSE ELSE ~ NoProductData(cache[1])

\* the lookup @st.cache_resource makes before it runs the body
CacheHit == cache # Unbound

\* ------------------------------------------------------------------------
\* SpecFilter: one call of filter_products (src/data_loader.py)
\* ------------------------------------------------------------------------
\* Python's truth value of an argument: None, "", 0 and 0.0 are false
Truthy(v) ==
    CASE v.kind = "None" -> FALSE
      [] v.kind = "str" -> v.value # ""
      [] v.kind = "float" -> v.value # 0
      [] v.kind = "tuple" -> TRUE

Float(x) == [kind |-> "float", value |-> x]
Tuple2(a, b) == [kind |-> "tuple", lo |-> a, hi |-> b]

\* result[result['mood'] == mood]
WhereMood(result, mood) ==
    SelectSeq(result, LAMBDA row : row.mood = mood.value)

\* result[(result['price'] >= price_range[0]) &
\*        (result['price'] <= price_range[1])]
WherePrice(result, price_range) ==
    SelectSeq(result, LAMBDA row : /\ row.price >= price_range.lo
                                   /\ row.price <= price_range.hi)

\* result[result['perceived_colour_master_name'] == color]
WhereColour(result, color) ==
    SelectSeq(result,
              LAMBDA row : row.perceived_colour_master_name = color.value)

\* result[result['hotness_score'] >= hotness_min]
WhereHotness(result, hotness_min) ==
    SelectSeq(result, LAMBDA row : row.hotness_score >= hotness_min.value)

\* the four if statements of the body, lines 198-208
FilterMood(result, mood) ==
    IF Truthy(mood) /\ mood # Str("All Moods")
    THEN WhereMood(result, mood) ELSE result

FilterPrice(result, price_range) ==
    IF Truthy(price_range) THEN WherePrice(result, price_range) ELSE result

FilterColour(result, color) ==
    IF Truthy(color) /\ color # Str("All Colors")
    THEN WhereColour(result, color) ELSE result

FilterHotness(result, hotness_min) ==
    IF Truthy(hotness_min) THEN WhereHotness(result, hotness_min) ELSE result

\* filter_products(df, mood, price_range, color, hotness_min).  With the
\* four columns in df and a pair as price_range no statement of the body
\* raises, and the except clause (return df) is not entered
filter_products(df, mood, price_range, color, hotness_min) ==
    FilterHotness(
        FilterColour(FilterPrice(FilterMood(df, mood), price_range), color),
        hotness_min)

\* the arguments of the calls explored; hotness in hundredths, as elsewhere
FilterColours == {"Black", "White"}
FilterRows ==
    [mood : {"Happy", "Calm"}, price : {1, 2},
     perceived_colour_master_name : FilterColours,
     hotness_score : {-10, 50}]
FilterFrames == UNION {[1 .. n -> FilterRows] : n \in 0 .. MaxFilterRows}
MoodArgs == {None, Str("All Moods"), Str("Happy")}
PriceRangeArgs == {None, Tuple2(1, 1), Tuple2(1, 2)}
ColourArgs == {None, Str("All Colors"), Str("Black")}
HotnessMinArgs == {None, Float(0), Float(50)}

FilterInit ==
    /\ CoreIdle
    /\ CardIdle
    /\ DlIdle
    /\ ValidIdle
    /\ UtilIdle
    /\ filterPc = "ready"
    /\ f_df \in FilterFrames
    /\ f_mood \in MoodArgs
    /\ f_price_range \in PriceRangeArgs
    /\ f_color \in ColourArgs
    /\ f_hotness_min \in HotnessMinArgs
    /\ f_result = Unbound

FilterProductsReturns ==
    /\ filterPc = "ready"
    /\ f_result' = <<filter_products(f_df, f_mood, f_price_range, f_color,
                                     f_hotness_min)>>
    /\ filterPc' = "returned"
    /\ UNCHANGED <<f_df, f_mood, f_price_range, f_color, f_hotness_min>>
    /\ UNCHANGED notFilter

FilterNext == FilterProductsReturns

SpecFilter == FilterInit /\ [][FilterNext]_vars

\* ------------------------------------------------------------------------
\* SpecValidate: one call of validate_data (src/data_loader.py)
\* ------------------------------------------------------------------------
required_keys == <<"article_master_web", "customer_dna_master",
                   "customer_test_validation">>

\* mutant: an empty frame passes
KeyFailsWhenNone(d, key) ==
    IF key \notin DOMAIN d THEN TRUE ELSE d[key] = None

\* lines 254-261: the tests that make the loop return False at key
KeyFails(d, key) ==
    IF key \notin DOMAIN d THEN TRUE
    ELSE IF d[key] = None THEN TRUE
    ELSE d[key].rows = 0

\* the loop over required_keys from position i on, then return True
RECURSIVE ValidateFrom(_, _)
ValidateFrom(d, i) ==
    IF i > Len(required_keys) THEN TRUE
    ELSE IF KeyFails(d, required_keys[i]) THEN FALSE
    ELSE ValidateFrom(d, i + 1)

\* validate_data(data): the value returned; no statement of the try block
\* raises on a dictionary of frames, so the except clause is not entered
validate_data(d) == [value |-> ValidateFrom(d, 1), raised |-> FALSE]

\* the dictionaries the loader can return and those with a None entry: any
\* set of the five keys, a frame or None under a dataset key, the directory
\* or None under 'images_dir'
DataKeys == {CsvKeys[k] : k \in DOMAIN CsvKeys} \cup {"images_dir"}
DataValues(key) ==
    IF key = "images_dir" THEN {None, Str(images_dir)}
    ELSE {None} \cup Frames
DataDicts ==
    UNION {{d \in [K -> {None, Str(images_dir)} \cup Frames] :
               \A k \in K : d[k] \in DataValues(k)} :
           K \in SUBSET DataKeys}

ValidateInit ==
    /\ CoreIdle
    /\ CardIdle
    /\ DlIdle
    /\ FilterIdle
    /\ UtilIdle
    /\ validPc = "ready"
    /\ v_data \in DataDicts
    /\ v_result = Unbound

ValidateDataReturns ==
    /\ validPc = "ready"
    /\ v_result' = <<validate_data(v_data)>>
    /\ validPc' = "returned"
    /\ UNCHANGED v_data
    /\ UNCHANGED notValid

ValidateNext == ValidateDataReturns

SpecValidate == ValidateInit /\ [][ValidateNext]_vars

\* ------------------------------------------------------------------------
\* Spec: the script is run again and again in one process
\* ------------------------------------------------------------------------
Pages == {"Dashboard Overview", "Product Analysis", "Emotion Analytics",
          "Customer Intelligence", "Recommendation Engine",
          "Business Performance"}

Init ==
    /\ ExtraIdle
    /\ SimIdle
    /\ RecIdle
    /\ TierIdle
    /\ disk \in SUBSET Paths
    /\ cache = Unbound
    /\ scriptPc = "load"
    /\ data = Unbound
    /\ cacheHit = FALSE
    /\ page = NoValue
    /\ work = Unbound
    /\ loaderPc = "off"
    /\ loaderData = EmptyDict
    /\ current = 0
    /\ csvIdx = 1
    /\ progress = Zero
    /\ calls = <<>>

\* data = load_data_from_drive(), served from the cache
LoadCached ==
    /\ scriptPc = "load"
    /\ CacheHit
    /\ data' = cache
    /\ cacheHit' = TRUE
    /\ scriptPc' = "check"
    /\ UNCHANGED <<disk, cache, page, work, loaderVars>>
    /\ UNCHANGED notApp

\* the cache holds nothing: the body starts (lines 131-152)
LoaderEnter ==
    /\ scriptPc = "load"
    /\ ~ CacheHit
    /\ scriptPc' = "loading"
    /\ cacheHit' = FALSE
    /\ loaderPc' = "csv"
    /\ loaderData' = EmptyDict
    /\ current' = 0
    /\ csvIdx' = 1
    /\ progress' = Zero
    /\ calls' = <<>>
    /\ UNCHANGED <<disk, cache, data, page, work>>
    /\ UNCHANGED notApp

\* ensure_data_dir raises (os.makedirs cannot create data/): the exception
\* leaves the body, nothing is cached, and the script's except clause shows
\* the error and stops the run
LoaderEnterRaises ==
    /\ scriptPc = "load"
    /\ ~ CacheHit
    /\ scriptPc' = "stopped"
    /\ cacheHit' = FALSE
    /\ UNCHANGED <<disk, cache, data, page, work, loaderVars>>
    /\ UNCHANGED notApp

\* the entries of calls: a call of download_from_drive on the files d with
\* whether it called gdown.download and the value it returned, a call of
\* load_csv_safe with whether it returned a frame, a call of extractall
DownloadCall(path, d, outcome) ==
    [fn |-> "download_from_drive", path |-> path,
     network |-> GdownDid(path, d, outcome) # "not called",
     ok |-> download_from_drive(path, d, outcome).ok]
LoadCsvCall(path, df) ==
    [fn |-> "load_csv_safe", path |-> path, parsed |-> df # None]
ExtractCall(path, ex) ==
    [fn |-> "extractall", path |-> path,
     raised |-> ex \in {"raises", "raises_partial"}]

\* mutant: data[key] = df also when load_csv_safe returned None
StoreCsvUnchecked(d, key, ok, df) ==
    IF ok THEN DictSet(d, key, df) ELSE d

\* lines 158-165: continue when the download failed; data[key] = df when
\* df is not None
StoreCsv(d, key, ok, df) ==
    IF ok /\ df # None THEN DictSet(d, key, df) ELSE d

\* one turn of the loop over csv_files
LoaderCsv ==
    /\ loaderPc = "csv"
    /\ \E outcome \in GdownOutcomes, df \in ReadCsvOutcomes :
          LET key == CsvKeys[csvIdx]
              dl == download_from_drive(CsvPath(key), disk, outcome)
          IN  /\ disk' = dl.disk
              /\ loaderData' = StoreCsv(loaderData, key, dl.ok, df)
              /\ calls' = calls
                    \o <<DownloadCall(CsvPath(key), disk, outcome)>>
                    \o (IF dl.ok THEN <<LoadCsvCall(CsvPath(key), df)>>
                        ELSE <<>>)
    /\ current' = current + 1
    /\ progress' = Frac(current + 1, total_files)
    /\ csvIdx' = csvIdx + 1
    /\ loaderPc' = IF csvIdx = Len(CsvKeys) THEN "images" ELSE "csv"
    /\ UNCHANGED <<cache, scriptVars>>
    /\ UNCHANGED notApp

\* mutant: the early return without data['images_dir'] = None
ImagesFailedKeyUnset(d) == d

\* lines 177 and 188: data['images_dir'] = None before the early return
ImagesFailed(d) == DictSet(d, "images_dir", None)

\* the images directory exists: nothing is fetched or unpacked
LoaderImagesPresent ==
    /\ loaderPc = "images"
    /\ images_dir \in disk
    /\ current' = current + 1
    /\ progress' = Frac(current + 1, total_files)
    /\ loaderData' = DictSet(loaderData, "images_dir", Str(images_dir))
    /\ loaderPc' = "return"
    /\ UNCHANGED <<disk, cache, scriptVars, csvIdx, calls>>
    /\ UNCHANGED notApp

\* neither the directory nor the archive exists and the download fails
LoaderImagesDownloadFails ==
    /\ loaderPc = "images"
    /\ images_dir \notin disk
    /\ images_zip_path \notin disk
    /\ \E outcome \in GdownOutcomes :
          LET dl == download_from_drive(images_zip_path, disk, outcome)
          IN  /\ ~ dl.ok
              /\ disk' = dl.disk
              /\ calls' = Append(calls, DownloadCall(images_zip_path, disk,
                                                     outcome))
    /\ loaderData' = ImagesFailed(loaderData)
    /\ progress' = One
    /\ loaderPc' = "return"
    /\ UNCHANGED <<cache, scriptVars, current, csvIdx>>
    /\ UNCHANGED notApp

\* the archive exists or is downloaded, and is unpacked
LoaderImagesExtract ==
    /\ loaderPc = "images"
    /\ images_dir \notin disk
    /\ \E outcome \in GdownOutcomes, ex \in ExtractOutcomes :
          LET dl == download_from_drive(images_zip_path, disk, outcome)
              after == IF ex \in {"extracted", "raises_partial"}
                       THEN dl.disk \cup {images_dir} ELSE dl.disk
          IN  /\ dl.ok
              /\ disk' = after
              /\ calls' = calls
                    \o (IF images_zip_path \in disk THEN <<>>
                        ELSE <<DownloadCall(images_zip_path, disk, outcome)>>)
                    \o <<ExtractCall(images_zip_path, ex)>>
              /\ IF ex \in {"raises", "raises_partial"}
                 THEN /\ loaderData' = ImagesFailed(loaderData)
                      /\ progress' = One
                      /\ current' = current
                 ELSE /\ current' = current + 1
                      /\ progress' = Frac(current + 1, total_files)
                      /\ loaderData' =
                            DictSet(loaderData, "images_dir",
                                    IF images_dir \in after
                                    THEN Str(images_dir) ELSE None)
    /\ loaderPc' = "return"
    /\ UNCHANGED <<cache, scriptVars, csvIdx>>
    /\ UNCHANGED notApp

\* return data: the decorator stores the value and the script receives it;
\* the record of the body's calls ends with the body
LoaderReturn ==
    /\ loaderPc = "return"
    /\ cache' = <<loaderData>>
    /\ data' = <<loaderData>>
    /\ calls' = <<>>
    /\ loaderPc' = "off"
    /\ scriptPc' = "check"
    /\ UNCHANGED <<disk, cacheHit, page, work, loaderData, current, csvIdx,
                   progress>>
    /\ UNCHANGED notApp

\* lines 265-267: no product table, st.error and st.stop
ScriptStops ==
    /\ scriptPc = "check"
    /\ NoProductData(data[1])
    /\ scriptPc' = "stopped"
    /\ UNCHANGED <<disk, cache, data, cacheHit, page, work, loaderVars>>
    /\ UNCHANGED notApp

\* the sidebar: st.radio gives the page chosen there
ScriptSidebar ==
    /\ scriptPc = "check"
    /\ ~ NoProductData(data[1])
    /\ page' \in Pages
    /\ scriptPc' = "page"
    /\ UNCHANGED <<disk, cache, data, cacheHit, work, loaderVars>>
    /\ UNCHANGED notApp

\* ---- frames as the pages handle them.  A name of a page is bound either to
\* the frame object held by the cached dictionary (alias) or to a frame of
\* its own; a write through an alias is a write to the cached frame.

\* df = data[key]
FrameRef(key) == [alias |-> TRUE, key |-> key, frame |-> data[1][key]]

\* w.copy()
Copy(w) == [w EXCEPT !.alias = FALSE]

\* mutant: the Business Performance page works on the cached frame itself
FrameInPlace(key) == FrameRef(key)

\* data[key].copy()
FrameCopy(key) == Copy(FrameRef(key))

\* w[mask], a new frame holding the n rows the mask selects
Select(w, n) == [w EXCEPT !.alias = FALSE, !.frame.rows = n]

\* w[col] = ...
SetColumn(w, col) == [w EXCEPT !.frame.derived = @ \cup {col}]

RECURSIVE SetColumns(_, _)
SetColumns(w, cols) ==
    IF cols = {} THEN w
    ELSE LET c == CHOOSE x \in cols : TRUE
         IN  SetColumns(SetColumn(w, c), cols \ {c})

\* the cached dictionary once the page has finished with w
Stored(w) ==
    IF w.alias THEN DictSet(data[1], w.key, w.frame) ELSE data[1]

\* the end of a page that worked on w: the footer is drawn and the run ends
PageEnds(w) ==
    /\ work' = <<w>>
    /\ cache' = <<Stored(w)>>
    /\ data' = <<Stored(w)>>
    /\ scriptPc' = "done"
    /\ UNCHANGED <<disk, cacheHit, page, loaderVars>>
    /\ UNCHANGED notApp

\* lines 286-383: metrics and charts read from df_articles
PageDashboardOverview ==
    /\ scriptPc = "page"
    /\ page = "Dashboard Overview"
    /\ PageEnds(FrameRef("article_master_web"))

\* lines 389-545: filtered_df = df_articles.copy(), narrowed by the filters
PageProductAnalysis ==
    /\ scriptPc = "page"
    /\ page = "Product Analysis"
    /\ LET filtered_df == FrameCopy("article_master_web")
       IN  \E n \in 0 .. filtered_df.frame.rows :
              PageEnds(Select(filtered_df, n))

\* lines 551-655: emotion_df is df_articles or the rows of one mood
PageEmotionAnalytics ==
    /\ scriptPc = "page"
    /\ page = "Emotion Analytics"
    /\ LET df == FrameRef("article_master_web")
       IN  \/ PageEnds(df)
           \/ \E n \in 0 .. df.frame.rows : PageEnds(Select(df, n))

\* 'customer_dna_master' in data and data['customer_dna_master'] is not None
HasCustomerData(d) ==
    IF "customer_dna_master" \notin DOMAIN d THEN FALSE
    ELSE d["customer_dna_master"] # None

\* lines 661-764: age_group is set on df_customers_copy when the table has
\* a column age; without the table a warning is shown
PageCustomerIntelligence ==
    /\ scriptPc = "page"
    /\ page = "Customer Intelligence"
    /\ IF HasCustomerData(data[1])
       THEN LET df_customers == FrameRef("customer_dna_master")
                df_customers_copy == Copy(df_customers)
            IN  \/ PageEnds(df_customers)
                \/ PageEnds(SetColumn(df_customers_copy, "age_group"))
       ELSE /\ scriptPc' = "done"
            /\ UNCHANGED <<disk, cache, data, cacheHit, page, work,
                           loaderVars>>
            /\ UNCHANGED notApp

\* get_recommendations, line 246: the rows of another article, copied
RecCandidates(df, n) == Copy(Select(df, n))

\* lines 770-986: with no product to choose the page ends on
\* filtered_products; else get_recommendations builds candidates, n rows of
\* df_articles, and sets match_score on it unless apply raises
PageRecommendationEngine ==
    /\ scriptPc = "page"
    /\ page = "Recommendation Engine"
    /\ LET df == FrameRef("article_master_web")
           filtered_products == Copy(df)
       IN  \/ \E n \in 0 .. df.frame.rows :
                 PageEnds(Select(filtered_products, n))
           \/ /\ df.frame.rows > 0
              /\ \E n \in 0 .. df.frame.rows - 1 :
                    LET cand == RecCandidates(df, n)
                    IN  \/ PageEnds(SetColumn(cand, "match_score"))
                        \/ n = 0 /\ PageEnds(cand)

\* line 997: df_articles = data['article_master_web'].copy()
BusinessFrame(key) == FrameCopy(key)

\* lines 992-1121: revenue_potential and performance_tier are set on
\* df_articles, each inside a try block of its own
PageBusinessPerformance ==
    /\ scriptPc = "page"
    /\ page = "Business Performance"
    /\ \E cols \in SUBSET {"revenue_potential", "performance_tier"} :
          PageEnds(SetColumns(BusinessFrame("article_master_web"), cols))

\* src/data_loader.py, filter_products(df, ...) given the cached product
\* table: result = df.copy() narrowed by the criteria, or df itself when the
\* body raised
FilterProductsCall ==
    /\ scriptPc = "page"
    /\ LET df == FrameRef("article_master_web")
       IN  \E result \in {Select(Copy(df), n) : n \in 0 .. df.frame.rows}
                            \cup {df} :
              /\ work' = <<result>>
              /\ cache' = <<Stored(result)>>
              /\ data' = <<Stored(result)>>
    /\ UNCHANGED <<disk, scriptPc, cacheHit, page, loaderVars>>
    /\ UNCHANGED notApp

\* the runtime runs the script again from its first line
ScriptRerun ==
    /\ scriptPc \in {"stopped", "done"}
    /\ scriptPc' = "load"
    /\ data' = Unbound
    /\ cacheHit' = FALSE
    /\ work' = Unbound
    /\ UNCHANGED <<disk, cache, page, loaderVars>>
    /\ UNCHANGED notApp

Next ==
    \/ LoadCached
    \/ LoaderEnter
    \/ LoaderEnterRaises
    \/ LoaderCsv
    \/ LoaderImagesPresent
    \/ LoaderImagesDownloadFails
    \/ LoaderImagesExtract
    \/ LoaderReturn
    \/ ScriptStops
    \/ ScriptSidebar
    \/ PageDashboardOverview
    \/ PageProductAnalysis
    \/ PageEmotionAnalytics
    \/ PageCustomerIntelligence
    \/ PageRecommendationEngine
    \/ PageBusinessPerformance
    \/ FilterProductsCall
    \/ ScriptRerun

Spec == Init /\ [][Next]_vars

\* ------------------------------------------------------------------------
\* SpecFetch: what fetches and unpacks local files.  From any set of
\* existing files either the body of load_data_from_drive runs, or the
\* helpers of src/utils/data_loader.py are called, with any paths, any
\* number of times
\* ------------------------------------------------------------------------
\* utils download_from_drive(file_id, output) on the files d, gdown behaving
\* as outcome: what the call did and the files afterwards.  An exception of
\* gdown.download leaves the helper
utils_download_from_drive(output, d, outcome) ==
    IF output \notin d
    THEN [did |-> "gdown.download",
          raised |-> outcome = "raises",
          disk |-> IF outcome = "saved" THEN d \cup {output} ELSE d]
    ELSE [did |-> "nothing", raised |-> FALSE, disk |-> d]

\* mutant: extract_zip unpacks whether or not the directory exists
extract_zip_always(zip_path, extract_to, d, ex) ==
    IF zip_path \notin d
    THEN [did |-> "ZipFile", raised |-> TRUE, disk |-> d]
    ELSE [did |-> "extractall",
          raised |-> ex \in {"raises", "raises_partial"},
          disk |-> IF ex \in {"extracted", "raises_partial"}
                   THEN d \cup {extract_to} ELSE d]

\* utils extract_zip(zip_path, extract_to) on the files d, extractall
\* behaving as ex; opening a missing archive raises
extract_zip(zip_path, extract_to, d, ex) ==
    IF extract_to \notin d
    THEN IF zip_path \notin d
         THEN [did |-> "ZipFile", raised |-> TRUE, disk |-> d]
         ELSE [did |-> "extractall",
               raised |-> ex \in {"raises", "raises_partial"},
               disk |-> IF ex \in {"extracted", "raises_partial"}
                        THEN d \cup {extract_to} ELSE d]
    ELSE [did |-> "nothing", raised |-> FALSE, disk |-> d]

FetchInit ==
    /\ SimIdle
    /\ RecIdle
    /\ TierIdle
    /\ CardIdle
    /\ DlIdle
    /\ FilterIdle
    /\ ValidIdle
    /\ UtilIdle
    /\ disk \in SUBSET Paths
    /\ cache = Unbound
    /\ scriptPc = "load"
    /\ data = Unbound
    /\ cacheHit = FALSE
    /\ page = NoValue
    /\ work = Unbound
    /\ loaderPc = "off"
    /\ loaderData = EmptyDict
    /\ current = 0
    /\ csvIdx = 1
    /\ progress = Zero
    /\ calls = <<>>

\* the body of the loader starts, no helper having been called
FetchLoaderEnter ==
    /\ u_call = NoCall
    /\ LoaderEnter

\* a helper is called, the body of the loader not having run
UtilsDownloadFromDrive ==
    /\ loaderPc = "off"
    /\ \E output \in Paths, outcome \in GdownOutcomes :
          LET r == utils_download_from_drive(output, disk, outcome)
          IN  /\ u_call' = [fn |-> "download_from_drive", output |-> output]
              /\ u_did' = r.did
              /\ disk' = r.disk
    /\ UNCHANGED <<cache, scriptVars, loaderVars>>
    /\ UNCHANGED notFetch

UtilsExtractZip ==
    /\ loaderPc = "off"
    /\ \E zip_path \in Paths, extract_to \in Paths, ex \in ExtractOutcomes :
          LET r == extract_zip(zip_path, extract_to, disk, ex)
          IN  /\ u_call' = [fn |-> "extract_zip", zip_path |-> zip_path,
                            extract_to |-> extract_to]
              /\ u_did' = r.did
              /\ disk' = r.disk
    /\ UNCHANGED <<cache, scriptVars, loaderVars>>
    /\ UNCHANGED notFetch

FetchNext ==
    \/ FetchLoaderEnter
    \/ LoaderCsv
    \/ LoaderImagesPresent
    \/ LoaderImagesDownloadFails
    \/ LoaderImagesExtract
    \/ UtilsDownloadFromDrive
    \/ UtilsExtractZip

SpecFetch == FetchInit /\ [][FetchNext]_vars

\* ------------------------------------------------------------------------
\* Claims about calculate_similarity (checked under SpecSim)
\* ------------------------------------------------------------------------
\* the amount the statement being executed adds to score
Added == FSub(score', score)

\* clamp(x, 0, 1)
Clamp01(x) == IF FLt(x, Zero) THEN Zero ELSE IF FLt(One, x) THEN One ELSE x

\* C1: for every pair of rows with numeric price and hotness_score the value
\* returned by calculate_similarity lies in the closed interval [0, 1].
C1_ScoreInUnitInterval ==
    simPc = "done" => FLeq(Zero, simResult) /\ FLeq(simResult, One)

\* C6: mood equality adds exactly 0.4 and section_name equality exactly 0.1,
\* a mismatch adds 0, every block is followed by the next one whatever the
\* comparison gave (no early exit), and the four weights sum to 1: a pair of
\* identical rows with a positive price reaches the return with score 1.
C6_MoodAndSectionWeights ==
    /\ [][/\ simPc = "mood" =>
                /\ Added = (IF product1.mood = product2.mood
                            THEN Frac(4, 10) ELSE Zero)
                /\ simPc' = "price"
          /\ simPc = "price" => simPc' = "hotness"
          /\ simPc = "hotness" => simPc' = "section"
          /\ simPc = "section" =>
                /\ Added = (IF product1.section_name = product2.section_name
                            THEN Frac(1, 10) ELSE Zero)
                /\ simPc' = "return"
          /\ simPc = "return" => simResult' # Unbound]_vars
    /\ [](simPc = "return" /\ product1 = product2 /\ product1.price > 0
            => score = One)

\* a call that returned 0.6 although the moods differ: the price, hotness
\* and section blocks all ran after the mood mismatch
C6_Witness ==
    /\ simPc = "done"
    /\ product1.mood # product2.mood
    /\ product1.section_name = product2.section_name
    /\ simResult = Frac(6, 10)

\* C7: when the larger price is positive the price block adds
\* 0.3 * (1 - clamp(|price_a - price_b| / max(price_a, price_b), 0, 1)),
\* a value in [0, 0.3] that is 0.3 exactly when the two prices are equal.
C7_PriceTerm ==
    [][simPc = "price" =>
         LET a == product1.price
             b == product2.price
             larger == IF a < b THEN b ELSE a
         IN  larger > 0 =>
               /\ Added = FMul(Frac(3, 10),
                               FSub(One, Clamp01(Frac(Abs(a - b), larger))))
               /\ FLeq(Zero, Added) /\ FLeq(Added, Frac(3, 10))
               /\ (Added = Frac(3, 10)) <=> (a = b)]_vars

\* the price block has run on prices 1 and 2 and added 0.3 * (1 - 1/2)
C7_Witness ==
    /\ simPc = "hotness"
    /\ product1.price = 1 /\ product2.price = 2
    /\ product1.mood # product2.mood
    /\ score = Frac(15, 100)

\* C8: the hotness block adds 0.2 * (1 - clamp(|hot_a - hot_b|, 0, 1)), a
\* value in [0, 0.2], for every pair of hotness values, also when they
\* differ by more than 1.
C8_HotnessTerm ==
    [][simPc = "hotness" =>
         LET d == Frac(Abs(product1.hotness_score - product2.hotness_score),
                       100)
         IN  /\ Added = FMul(Frac(2, 10), FSub(One, Clamp01(d)))
             /\ FLeq(Zero, Added) /\ FLeq(Added, Frac(2, 10))]_vars

\* ------------------------------------------------------------------------
\* Claims about get_recommendations (checked under SpecRec)
\* ------------------------------------------------------------------------
\* the catalog rows that are candidates: another article_id than the
\* selected product's
CandidateRows ==
    {i \in DOMAIN df_articles :
        df_articles[i].article_id # selected_product.article_id}

\* the match_score of catalog row i
ScoreOf(i) == calculate_similarity(selected_product, df_articles[i])

\* the catalog rows returned, and the candidates left out
ReturnedRows == {recommendations[k].index : k \in DOMAIN recommendations}
LeftOut == CandidateRows \ ReturnedRows

\* C2: the call returns exactly min(n, number of candidate rows) rows, each a
\* candidate row with its score, in order of non-increasing match_score, and
\* no candidate left out scores strictly more than a returned row.
C2_TopNByScore ==
    recPc = "returned" =>
      /\ Len(recommendations) =
            Min(n_recommendations, Cardinality(CandidateRows))
      /\ Cardinality(ReturnedRows) = Len(recommendations)
      /\ \A k \in DOMAIN recommendations :
            /\ recommendations[k].index \in CandidateRows
            /\ recommendations[k].row = df_articles[recommendations[k].index]
            /\ recommendations[k].match_score =
                  ScoreOf(recommendations[k].index)
      /\ \A j, k \in DOMAIN recommendations :
            j < k => FLeq(recommendations[k].match_score,
                          recommendations[j].match_score)
      /\ \A c \in LeftOut : \A k \in DOMAIN recommendations :
            ~ FLt(recommendations[k].match_score, ScoreOf(c))

\* one row returned out of two candidates: the later catalog row, because it
\* scores strictly more than the earlier one
C2_Witness ==
    /\ recPc = "returned"
    /\ n_recommendations = 1
    /\ Len(recommendations) = 1
    /\ \E c \in LeftOut :
          /\ c < recommendations[1].index
          /\ FLt(ScoreOf(c), recommendations[1].match_score)

\* C3: among candidates of equal match_score the earlier catalog row comes
\* first in the result and is kept in preference to a later one.
C3_TiesByRowOrder ==
    recPc = "returned" =>
      /\ \A j, k \in DOMAIN recommendations :
            (j < k /\ recommendations[j].match_score =
                          recommendations[k].match_score)
               => recommendations[j].index < recommendations[k].index
      /\ \A c \in LeftOut : \A k \in DOMAIN recommendations :
            ScoreOf(c) = recommendations[k].match_score
               => recommendations[k].index < c

\* two candidates tie and only one place is asked for
C3_Witness ==
    /\ recPc = "returned"
    /\ n_recommendations = 1
    /\ Len(recommendations) = 1
    /\ \E c \in LeftOut : ScoreOf(c) = recommendations[1].match_score

\* C4: no returned row has the article_id of the selected product.
C4_SelectedExcluded ==
    recPc = "returned" =>
      \A k \in DOMAIN recommendations :
         recommendations[k].row.article_id # selected_product.article_id

\* the catalog holds the selected article_id on two rows, and a row is returned
C4_Witness ==
    /\ recPc = "returned"
    /\ Len(recommendations) >= 1
    /\ Cardinality(DOMAIN df_articles \ CandidateRows) >= 2

\* C5 (as claimed): every returned row scores at or above the minimum
\* threshold.
C5_ThresholdApplied ==
    recPc = "returned" =>
      \A k \in DOMAIN recommendations :
         FLeq(MinThreshold, recommendations[k].match_score)

\* C5 (amended): no threshold is applied.  The rows returned are the
\* min(n, k) best of the k candidates whatever they score: of the q
\* candidates scoring at or above 0.6, min(n, q) are returned, and the
\* remaining min(n, k) - min(n, q) places go to candidates below 0.6.
C5_NoThreshold ==
    recPc = "returned" =>
      LET above == {c \in CandidateRows : FLeq(MinThreshold, ScoreOf(c))}
          keptAbove == {k \in DOMAIN recommendations :
                          FLeq(MinThreshold, recommendations[k].match_score)}
          keptBelow == {k \in DOMAIN recommendations :
                          FLt(recommendations[k].match_score, MinThreshold)}
      IN  /\ Cardinality(keptAbove) =
                Min(n_recommendations, Cardinality(above))
          /\ Cardinality(keptBelow) =
                Min(n_recommendations, Cardinality(CandidateRows))
                - Min(n_recommendations, Cardinality(above))

\* a row scoring below 0.6 is returned
C5_Witness ==
    /\ recPc = "returned"
    /\ \E k \in DOMAIN recommendations :
          FLt(recommendations[k].match_score, MinThreshold)

\* ------------------------------------------------------------------------
\* Claims about the Business Performance page (checked under SpecTier)
\* ------------------------------------------------------------------------
\* C9: the page's hotness classification is the step function with
\* boundaries 0.3, 0.5 and 0.8: hotness > 0.8 is in the top tier, [0.5, 0.8)
\* in the second, [0.3, 0.5) in the third and hotness < 0.3 in the lowest.
C9_TierBoundaries ==
    \A i \in DOMAIN performance_tier :
       LET h == hotness_score[i]
           t == performance_tier[i]
       IN  /\ h > 80 => t = "Very High"
           /\ (50 <= h /\ h < 80) => t = "High"
           /\ (30 <= h /\ h < 50) => t = "Medium"
           /\ h < 30 => t = "Low"

\* the sum of the Product Count column from line k on
RECURSIVE ProductCountSum(_, _)
ProductCountSum(counts, k) ==
    IF k > Len(counts) THEN 0 ELSE counts[k] + ProductCountSum(counts, k + 1)

\* C21: when every hotness_score of the catalog lies in [0, 1], every row
\* has one of the four tiers, the Product Count values of inventory_rec sum
\* to the number of rows of the catalog, and the metric "Low Performers"
\* equals the Product Count of the tier 'Low'.
C21_TiersPartitionCatalog ==
    (/\ tierPc = "done"
     /\ \A i \in DOMAIN hotness_score :
           0 <= hotness_score[i] /\ hotness_score[i] <= 100)
    => /\ \A i \in DOMAIN performance_tier :
             \E k \in DOMAIN TierLabels : performance_tier[i] = TierLabels[k]
       /\ ProductCountSum(inventory_rec, 1) = Len(hotness_score)
       /\ low_performers = inventory_rec[1]

\* ------------------------------------------------------------------------
\* Claims about the cached loader (checked under Spec)
\* ------------------------------------------------------------------------
\* C10: once a call of load_data_from_drive has completed, the body never
\* runs again in the process: the cached dictionary and the local files stay
\* as they are, no statement of the body is executed, and every later run of
\* the script receives that same dictionary, also when it lacks datasets.
C10_LoadedOncePerProcess ==
    /\ [][cache # Unbound =>
            /\ cache' = cache
            /\ disk' = disk
            /\ loaderPc' = "off"
            /\ UNCHANGED <<loaderData, current, csvIdx, progress,
                           calls>>]_vars
    /\ [][(scriptPc = "load" /\ cache # Unbound) =>
            (data' = cache /\ cacheHit' /\ scriptPc' = "check")]_vars
    /\ [](cache # Unbound => loaderPc = "off")

\* a later run has been served the cached dictionary of a first call that
\* loaded no product table
C10_Witness ==
    /\ scriptPc = "stopped"
    /\ cacheHit
    /\ cache # Unbound
    /\ data = cache
    /\ "article_master_web" \notin DOMAIN cache[1]
    /\ "images_dir" \in DOMAIN cache[1]

\* ------------------------------------------------------------------------
\* Claims about the pages (checked under Spec)
\* ------------------------------------------------------------------------
\* the frames a dictionary holds
FramesOf(d) == {d[k] : k \in {x \in DOMAIN d : d[x].kind = "DataFrame"}}

\* C11: the cached dataframes are read-only: a page, get_recommendations
\* (called by the Recommendation Engine page) and filter_products leave the
\* cached dictionary and the dictionary the script holds as they were, a frame
\* that received a derived column is never the cached object, and no frame of
\* the cache ever has a derived column.
C11_CachedFramesReadOnly ==
    /\ [][scriptPc = "page" =>
            /\ cache' = cache
            /\ data' = data
            /\ (work' # Unbound /\ work'[1].frame.derived # {})
                  => ~ work'[1].alias]_vars
    /\ [](cache # Unbound =>
            \A f \in FramesOf(cache[1]) : f.derived = {})

\* the Business Performance page has set both of its columns on its frame
\* and the cached product table has neither
C11_Witness ==
    /\ scriptPc = "done"
    /\ page = "Business Performance"
    /\ work # Unbound
    /\ work[1].frame.derived = {"revenue_potential", "performance_tier"}
    /\ work[1].frame.rows > 0
    /\ cache[1]["article_master_web"].derived = {}

\* ------------------------------------------------------------------------
\* Claims about the recommendation cards (checked under SpecCards)
\* ------------------------------------------------------------------------
\* C12: when the page has finished the block under "Recommended Products
\* (Top 10 Matches)", every row returned by get_recommendations has a card,
\* in row order, each with a View Details button of its own.
C12_EveryRowHasCard ==
    cardPc \in {"done", "error"} =>
        /\ Len(cards) = Len(card_recs)
        /\ \A k \in DOMAIN cards :
              /\ cards[k].article_id = card_recs[k]
              /\ \A j \in DOMAIN cards : j # k =>
                    cards[j].button # cards[k].button

\* ------------------------------------------------------------------------
\* Claims about download_from_drive (checked under SpecDownload)
\* ------------------------------------------------------------------------
\* C13: a call of download_from_drive ends by returning, never by raising;
\* it returns True exactly when file_path exists at the return, and False
\* when gdown.download left no file or raised.
C13_DownloadNeverRaises ==
    dlPc = "returned" =>
        /\ ~ dl_result[1].raised
        /\ dl_result[1].ok <=> dl_path \in dl_files
        /\ dl_gdown \in {"nothing", "raises"} => ~ dl_result[1].ok

\* a call whose download raised has returned False, the file missing
C13_Witness ==
    /\ dlPc = "returned"
    /\ dl_gdown = "raises"
    /\ dl_result = <<[ok |-> FALSE, raised |-> FALSE]>>
    /\ dl_path \notin dl_files

\* ------------------------------------------------------------------------
\* Claims about filter_products (checked under SpecFilter)
\* ------------------------------------------------------------------------
\* whether a row satisfies every criterion supplied to the call
SatisfiesCriteria(row) ==
    /\ f_mood \notin {None, Str("All Moods")} => row.mood = f_mood.value
    /\ f_price_range # None =>
          /\ row.price >= f_price_range.lo
          /\ row.price <= f_price_range.hi
    /\ f_color \notin {None, Str("All Colors")} =>
          row.perceived_colour_master_name = f_color.value
    /\ f_hotness_min # None => row.hotness_score >= f_hotness_min.value

\* C14: filter_products returns exactly the rows of df that satisfy every
\* supplied criterion, in their original order (no mood filter for None or
\* 'All Moods', price bounds inclusive, no colour filter for None or 'All
\* Colors', hotness_score >= hotness_min), and the four filters applied in
\* the opposite order give the same frame.
C14_RowsSatisfyingCriteria ==
    filterPc = "returned" =>
        /\ f_result[1] = SelectSeq(f_df, SatisfiesCriteria)
        /\ f_result[1] =
              FilterMood(FilterPrice(FilterColour(
                  FilterHotness(f_df, f_hotness_min), f_color),
                  f_price_range), f_mood)

\* ------------------------------------------------------------------------
\* Claims about validate_data (checked under SpecValidate)
\* ------------------------------------------------------------------------
\* d without the keys 'visual_dna_embeddings' and 'images_dir'
WithoutOptional(d) ==
    [k \in DOMAIN d \ {"visual_dna_embeddings", "images_dir"} |-> d[k]]

\* C15: validate_data returns, never raises, and the value is True exactly
\* when each of 'article_master_web', 'customer_dna_master' and
\* 'customer_test_validation' is a key of data holding a frame of at least
\* one row; taking 'visual_dna_embeddings' and 'images_dir' out of data
\* gives the same value.
C15_ValidateData ==
    validPc = "returned" =>
        /\ ~ v_result[1].raised
        /\ v_result[1].value <=>
              \A key \in {"article_master_web", "customer_dna_master",
                          "customer_test_validation"} :
                 /\ key \in DOMAIN v_data
                 /\ v_data[key] # None
                 /\ v_data[key].rows >= 1
        /\ validate_data(WithoutOptional(v_data)) = v_result[1]

\* True was returned for a dictionary with neither optional key, and False
\* is what an empty customer table gives
C15_Witness ==
    /\ validPc = "returned"
    /\ v_result[1].value
    /\ DOMAIN v_data = {"article_master_web", "customer_dna_master",
                        "customer_test_validation"}
    /\ ~ validate_data(DictSet(v_data, "customer_dna_master",
                               [kind |-> "DataFrame", rows |-> 0,
                                derived |-> {}])).value

\* ------------------------------------------------------------------------
\* Claims about the script (checked under Spec)
\* ------------------------------------------------------------------------
\* whether the script holds a dictionary with a product table
HoldsProductTable ==
    /\ data # Unbound
    /\ "article_master_web" \in DOMAIN data[1]
    /\ data[1]["article_master_web"].kind = "DataFrame"

\* C16: the sidebar and a page run only in a run whose data is the cached
\* dictionary and holds a product table that is not None; a run whose loader
\* raised, or whose dictionary lacks the table, stops, and the next thing the
\* script does is start again from its first line.
C16_NoPageWithoutProductTable ==
    /\ [](scriptPc \in {"page", "done"} =>
            HoldsProductTable /\ data = cache)
    /\ [][/\ (scriptPc = "check" /\ ~ HoldsProductTable) =>
                scriptPc' = "stopped"
          /\ (scriptPc = "load" /\ scriptPc' \notin {"loading", "check"}) =>
                (scriptPc' = "stopped" /\ data' = Unbound)
          /\ scriptPc = "stopped" =>
                (scriptPc' = "load" /\ UNCHANGED <<page, work>>)]_vars

\* the loader returned a dictionary without the product table (its download
\* failed) and the run stopped with no page ever chosen
C16_Witness ==
    /\ scriptPc = "stopped"
    /\ data # Unbound
    /\ "article_master_web" \notin DOMAIN data[1]
    /\ "customer_dna_master" \in DOMAIN data[1]
    /\ ~ cacheHit
    /\ page = NoValue

\* ------------------------------------------------------------------------
\* Claims about the body of load_data_from_drive (checked under Spec)
\* ------------------------------------------------------------------------
\* the calls of fn the body has made, in order
CallsOf(fn) == SelectSeq(calls, LAMBDA c : c.fn = fn)

\* the calls of download_from_drive for a CSV file
CsvDownloads ==
    SelectSeq(CallsOf("download_from_drive"),
              LAMBDA c : c.path # images_zip_path)

\* whether load_csv_safe was called on path and returned a frame
Parsed(path) ==
    \E k \in DOMAIN CallsOf("load_csv_safe") :
        /\ CallsOf("load_csv_safe")[k].path = path
        /\ CallsOf("load_csv_safe")[k].parsed

\* C17: a turn of the loop over csv_files is always followed by the next
\* turn or by the image block, whatever the download and the parse gave;
\* after the loop download_from_drive has been called once for each of the
\* four CSV files, in the order of csv_files, and a key is in data exactly
\* when its download returned True and load_csv_safe returned a frame.
C17_FailedCsvOmitted ==
    /\ [][loaderPc = "csv" =>
            /\ loaderPc' = (IF csvIdx = 4 THEN "images" ELSE "csv")
            /\ csvIdx' = csvIdx + 1]_vars
    /\ [](loaderPc \in {"images", "return"} =>
            /\ Len(CsvDownloads) = 4
            /\ \A k \in 1 .. 4 :
                  /\ CsvDownloads[k].path = CsvPath(CsvKeys[k])
                  /\ CsvKeys[k] \in DOMAIN loaderData
                        <=> (CsvDownloads[k].ok
                             /\ Parsed(CsvPath(CsvKeys[k])))
                  /\ CsvKeys[k] \in DOMAIN loaderData
                        => loaderData[CsvKeys[k]].kind = "DataFrame")

\* the body is about to return a dictionary that lacks the product table
\* (its download failed) and the customer table (its parse failed) and
\* holds the two tables attempted after them
C17_Witness ==
    /\ loaderPc = "return"
    /\ ~ CsvDownloads[1].ok
    /\ CsvDownloads[2].ok /\ ~ Parsed(CsvPath(CsvKeys[2]))
    /\ DOMAIN loaderData = {"customer_test_validation",
                            "visual_dna_embeddings", "images_dir"}

\* the last call the body made
LastCall == calls[Len(calls)]

\* the image block ended early: the download of the archive returned False
\* or extractall raised
ImagesEndedEarly ==
    /\ calls # <<>>
    /\ \/ /\ LastCall.fn = "download_from_drive"
          /\ LastCall.path = images_zip_path
          /\ ~ LastCall.ok
       \/ /\ LastCall.fn = "extractall"
          /\ LastCall.raised

\* C18: whenever the body is about to return, data has the key 'images_dir';
\* its value is None when the download of the archive failed or extractall
\* raised; and the image block leaves every dataset key of data, and the
\* frame under it, as the loop over csv_files left them.
C18_ImagesDirAlwaysSet ==
    /\ [](loaderPc = "return" =>
            /\ "images_dir" \in DOMAIN loaderData
            /\ ImagesEndedEarly => loaderData["images_dir"] = None)
    /\ [][loaderPc = "images" =>
            /\ loaderPc' = "return"
            /\ DOMAIN loaderData' = DOMAIN loaderData \cup {"images_dir"}
            /\ \A key \in DOMAIN loaderData :
                  loaderData'[key] = loaderData[key]]_vars

\* extractall raised after the product table was loaded: the body is about
\* to return the table with 'images_dir' None
C18_Witness ==
    /\ loaderPc = "return"
    /\ calls # <<>>
    /\ LastCall.fn = "extractall"
    /\ LastCall.raised
    /\ "article_master_web" \in DOMAIN loaderData
    /\ loaderData["images_dir"] = None

\* C20: while the body of load_data_from_drive runs, the value given to the
\* progress bar lies in [0, 1] and never decreases, and whenever the body is
\* about to return, on every return path, the last value given is exactly 1.
C20_ProgressMonotone ==
    /\ [](FLeq(Zero, progress) /\ FLeq(progress, One))
    /\ [][(loaderPc = "csv" \/ loaderPc = "images") =>
            FLeq(progress, progress')]_vars
    /\ [](loaderPc = "return" => progress = One)

\* an early return: the bar went from 4/5 to 1 without the fifth file being
\* counted, two datasets missing from data
C20_Witness ==
    /\ loaderPc = "return"
    /\ progress = One
    /\ current = 4
    /\ Cardinality(DOMAIN loaderData) = 3

\* ------------------------------------------------------------------------
\* Claims about fetching and unpacking (checked under SpecFetch)
\* ------------------------------------------------------------------------
\* the calls the step being taken adds to calls
NewCalls == {calls'[k] : k \in (Len(calls) + 1) .. Len(calls')}

\* C19: a call of download_from_drive on a path that exists calls
\* gdown.download not at all; the image block makes no call and touches no
\* file when the images directory exists, and does not call download_from_drive
\* for the archive when the archive exists; the helpers extract_zip and
\* download_from_drive of utils/data_loader.py do nothing when their target
\* exists.
C19_NoRefetch ==
    [][/\ (loaderPc = "csv" \/ loaderPc = "images") =>
             \A c \in NewCalls :
                (c.fn = "download_from_drive" /\ c.path \in disk)
                     => (~ c.network /\ c.ok)
       /\ (loaderPc = "images" /\ images_dir \in disk) =>
             (NewCalls = {} /\ disk' = disk)
       /\ (loaderPc = "images" /\ images_zip_path \in disk) =>
             \A c \in NewCalls : c.fn # "download_from_drive"
       /\ (loaderPc = "off" /\ loaderPc' = "off") =>
             /\ (u_call'.fn = "extract_zip" /\ u_call'.extract_to \in disk)
                   => (u_did' = "nothing" /\ disk' = disk)
             /\ (u_call'.fn = "download_from_drive"
                 /\ u_call'.output \in disk)
                   => (u_did' = "nothing" /\ disk' = disk)]_vars

\* every CSV file and the archive existed and the images directory did not:
\* the body went through without a download and unpacked the archive
C19_Witness ==
    /\ loaderPc = "return"
    /\ Len(CallsOf("download_from_drive")) = 4
    /\ \A k \in 1 .. 4 : ~ CallsOf("download_from_drive")[k].network
    /\ LastCall.fn = "extractall"
    /\ images_dir \in disk

====
